---- MODULE Spec2Model ----
(***************************************************************************)
(* Model of the complaint form of app.py: the session state behind the     *)
(* form widgets, and the submit handler (required-field check, file size   *)
(* guard, Pydantic validation, the POST to the webhook and the handling of *)
(* its outcome).                                                            *)
(*                                                                          *)
(* A text value is abstracted to its shape: the number of leading          *)
(* whitespace characters, the length of the stripped core, the number of   *)
(* trailing whitespace characters, and (for e-mail syntax) the form of the *)
(* core.  str.strip() is then the operation that zeroes lead and trail.    *)
(***************************************************************************)
EXTENDS Integers, Sequences, FiniteSets, TLC

VARIABLES ss, pc, before, reply, msgs, posts, built, validated, resetRaised

vars == <<ss, pc, before, reply, msgs, posts, built, validated, resetRaised>>

----------------------------------------------------------------------------
(* Bounds of the exploration *)

MaxFiles == 2

----------------------------------------------------------------------------
(* Program constants: the Field(...) constraints of the Pydantic models *)

NameMin == 2
NameMax == 100
SubjectMin == 3
SubjectMax == 200
ComplaintMin == 10
ComplaintMax == 2000
FilenameMin == 1
FilenameMax == 255
max_file_size == 5 * 1024 * 1024
PriorityOptions == <<"Low", "Medium", "High", "Urgent">>
PriorityPattern == {"Low", "Medium", "High", "Urgent"}

----------------------------------------------------------------------------
(* Text values *)

T(l, c, r, f) == [lead |-> l, core |-> c, trail |-> r, form |-> f]

Empty == T(0, 0, 0, "text")

\* len(s)
StrLen(t) == t.lead + t.core + t.trail

\* `not s` of a Python str: true exactly for the empty string
Falsy(t) == StrLen(t) = 0

\* s.strip()
strip(t) == [t EXCEPT !.lead = 0, !.trail = 0]

\* What the user can type in each text widget
NameValues ==
    { Empty, T(1, 0, 0, "text"), T(0, NameMin - 1, 0, "text"),
      T(1, NameMin, 1, "text"), T(0, NameMax + 1, 0, "text") }

EmailValues ==
    { Empty, T(0, 12, 0, "text"), T(1, 6, 1, "addr") }

SubjectValues ==
    { Empty, T(0, SubjectMin - 1, 0, "text"), T(1, SubjectMax, 1, "text"),
      T(0, SubjectMax + 1, 0, "text") }

ComplaintValues ==
    { Empty, T(0, ComplaintMin - 1, 0, "text"), T(1, ComplaintMin, 0, "text"),
      T(0, ComplaintMax + 1, 0, "text") }

----------------------------------------------------------------------------
(* Uploaded files *)

File(n, nl, ct, sz) == [name |-> n, namelen |-> nl, type |-> ct, size |-> sz]

\* What the user can upload: a small file, a file of exactly the size limit
\* and one a byte over it
FileKinds ==
    { File("receipt.png", 11, "image/png", 1024),
      File("invoice.pdf", 11, "application/pdf", max_file_size),
      File("video.mp4", 9, "video/mp4", max_file_size + 1) }

FileLists == UNION { [1..n -> FileKinds] : n \in 0..MaxFiles }

\* len(base64.b64encode(content)): four characters per started group of three bytes
b64len(n) == 4 * ((n + 2) \div 3)

----------------------------------------------------------------------------
(* Session state *)

WidgetKeys ==
    { "name_input", "email_input", "subject_input", "complaint_input",
      "priority_input", "uploaded_files" }

Defaults ==
    [ name_input |-> Empty, email_input |-> Empty, subject_input |-> Empty,
      complaint_input |-> Empty, priority_input |-> "Low",
      uploaded_files |-> <<>> ]

\* Assignment st.session_state.<key> = value inside the handler.  The script
\* has already instantiated the widgets of WidgetKeys in this run when the
\* handler executes, and Streamlit refuses the assignment to the key of an
\* instantiated widget by raising StreamlitAPIException; the statements after
\* a raise are not executed.
SetItem(st, key, val) ==
    IF st.raised THEN st
    ELSE IF key \in WidgetKeys THEN [st EXCEPT !.raised = TRUE]
    ELSE [st EXCEPT !.ss = [st.ss EXCEPT ![key] = val]]

\* clear_form_state(): six assignments in sequence (None is the empty selection)
clear_form_state(s) ==
    LET s0 == [ss |-> s, raised |-> FALSE]
        s1 == SetItem(s0, "name_input", Empty)
        s2 == SetItem(s1, "email_input", Empty)
        s3 == SetItem(s2, "subject_input", Empty)
        s4 == SetItem(s3, "complaint_input", Empty)
        s5 == SetItem(s4, "priority_input", "Low")
    IN  SetItem(s5, "uploaded_files", <<>>)

----------------------------------------------------------------------------
(* Messages shown to the user: st.error / st.success / st.warning / st.info *)

Msg(level, kind, items, status, body) ==
    [level |-> level, kind |-> kind, items |-> items, status |-> status, body |-> body]

RequiredFieldsError == Msg("error", "RequiredFields", <<>>, 0, "")
DocumentRequiredError == Msg("error", "DocumentRequired", <<>>, 0, "")
FileSizeError(names) == Msg("error", "FileTooLarge", names, 0, "")
ValidationIssues(locs) == Msg("error", "ValidationError", locs, 0, "")
SuccessMsg == Msg("success", "Success", <<>>, 0, "")
StatusWarning(code) == Msg("warning", "UnexpectedStatus", <<>>, code, "")
ResponseInfo(text) == Msg("info", "UnexpectedStatus", <<>>, 0, text)
TimeoutError == Msg("error", "Timeout", <<>>, 0, "")
RequestError == Msg("error", "TransportError", <<>>, 0, "")
UnexpectedError == Msg("error", "UnknownError", <<>>, 0, "")

----------------------------------------------------------------------------
(* What requests.post can do with one request *)

Response(code, text) == [kind |-> "response", status_code |-> code, text |-> text]
Raises(exc) == [kind |-> exc, status_code |-> 0, text |-> ""]

NoReply == Raises("none")

NetOutcomes ==
    { Response(200, "ok"), Response(500, "oops"),
      Raises("Timeout"), Raises("RequestException"), Raises("Exception") }

----------------------------------------------------------------------------
(* The submit handler *)

\* Result of one run of the handler
Result(s, m, p, b, v, r) ==
    [ss |-> s, msgs |-> m, posts |-> p, built |-> b, validated |-> v, resetRaised |-> r]

\* Variant: the complaint field is left out of the required-field check
RequiredMissingNoComplaint(name, email, subject, complaint) ==
    Falsy(name) \/ Falsy(email) \/ Falsy(subject)

\* if not name or not email or not subject or not complaint
RequiredMissing(name, email, subject, complaint) ==
    Falsy(name) \/ Falsy(email) \/ Falsy(subject) \/ Falsy(complaint)

\* form_data before the files are processed
form_data(s) ==
    [ name |-> strip(s.name_input),
      email |-> strip(s.email_input),
      subject |-> strip(s.subject_input),
      complaint |-> strip(s.complaint_input),
      priority |-> s.priority_input,
      attachments |-> <<>> ]

\* Variant: a file of exactly the limit is rejected too
TooLargeInclusive(file) == file.size >= max_file_size

\* len(file_content) > max_file_size
TooLarge(file) == file.size > max_file_size

\* Variant: size_bytes is taken from the encoded text instead of the content
file_data_encoded_size(file) ==
    [ filename |-> file.name,
      filename_len |-> file.namelen,
      content_type |-> file.type,
      size_bytes |-> b64len(file.size),
      content_base64_len |-> b64len(file.size) ]

\* file_data of one accepted file
file_data(file) ==
    [ filename |-> file.name,
      filename_len |-> file.namelen,
      content_type |-> file.type,
      size_bytes |-> file.size,
      content_base64_len |-> b64len(file.size) ]

\* The loop over uploaded_files: acc is [attachments, file_errors]
RECURSIVE SizeGuard(_, _)
SizeGuard(files, acc) ==
    IF files = <<>> THEN acc
    ELSE LET file == Head(files) IN
         IF TooLarge(file)
         THEN SizeGuard(Tail(files),
                        [acc EXCEPT !.file_errors = Append(@, file.name)])
         ELSE SizeGuard(Tail(files),
                        [acc EXCEPT !.attachments = Append(@, file_data(file))])

----------------------------------------------------------------------------
(* Pydantic validation of form_data against ComplaintSubmission *)

\* EmailStr: the syntax check of the address
EmailSyntaxOK(t) == t.form = "addr" /\ StrLen(t) > 0

\* Variant: only max_length is enforced
LengthOKNoMin(t, lo, hi) == StrLen(t) <= hi

\* Field(min_length=lo, max_length=hi) on a str
LengthOK(t, lo, hi) == lo <= StrLen(t) /\ StrLen(t) <= hi

ErrIf(cond, loc) == IF cond THEN <<loc>> ELSE <<>>

\* Attachment: filename length and size_bytes bound
AttachmentErrors(a) ==
    ErrIf(~(FilenameMin <= a.filename_len /\ a.filename_len <= FilenameMax),
          "attachments -> filename")
    \o ErrIf(~(a.size_bytes <= max_file_size), "attachments -> size_bytes")

RECURSIVE AttachmentsErrors(_)
AttachmentsErrors(as) ==
    IF as = <<>> THEN <<>>
    ELSE AttachmentErrors(Head(as)) \o AttachmentsErrors(Tail(as))

\* ve.errors(): one entry per violated field, in field order
ValidationErrors(fd) ==
    ErrIf(~LengthOK(fd.name, NameMin, NameMax), "name")
    \o ErrIf(~EmailSyntaxOK(fd.email), "email")
    \o ErrIf(~LengthOK(fd.subject, SubjectMin, SubjectMax), "subject")
    \o ErrIf(~LengthOK(fd.complaint, ComplaintMin, ComplaintMax), "complaint")
    \o ErrIf(fd.priority \notin PriorityPattern, "priority")
    \o ErrIf(Len(fd.attachments) < 1, "attachments")
    \o AttachmentsErrors(fd.attachments)

----------------------------------------------------------------------------
(* The network call and the handling of its outcome *)

\* Variant: the request is sent again after a timeout
requests_post_retry(payload, net) ==
    IF net.kind = "Timeout" THEN <<payload, payload>> ELSE <<payload>>

\* requests.post(WEBHOOK_URL, json=validated.model_dump(), timeout=30):
\* the requests put on the wire by the call
requests_post(payload, net) == <<payload>>

\* if response.status_code == 200: ... else: ...
CheckResponse(s, response) ==
    IF response.status_code = 200
    THEN LET c == clear_form_state(s) IN
         [ss |-> c.ss, msgs |-> <<SuccessMsg>>, raised |-> c.raised]
    ELSE [ss |-> s,
          msgs |-> <<StatusWarning(response.status_code), ResponseInfo(response.text)>>,
          raised |-> FALSE]

\* Variant: the timeout handler drops the stored form values
ExceptClauseForgets(s, net, sent) ==
    IF net.kind = "Timeout"
    THEN Result(Defaults, <<TimeoutError>>, sent, TRUE, TRUE, FALSE)
    ELSE IF net.kind = "RequestException"
    THEN Result(s, <<RequestError>>, sent, TRUE, TRUE, FALSE)
    ELSE Result(s, <<UnexpectedError>>, sent, TRUE, TRUE, FALSE)

\* except requests.exceptions.Timeout / RequestException / Exception, for an
\* exception raised by requests.post
ExceptClause(s, net, sent) ==
    IF net.kind = "Timeout"
    THEN Result(s, <<TimeoutError>>, sent, TRUE, TRUE, FALSE)
    ELSE IF net.kind = "RequestException"
    THEN Result(s, <<RequestError>>, sent, TRUE, TRUE, FALSE)
    ELSE Result(s, <<UnexpectedError>>, sent, TRUE, TRUE, FALSE)

\* The try block
TrySubmit(s, fd, net) ==
    LET errs == ValidationErrors(fd) IN
    IF errs # <<>>
    THEN Result(s, <<ValidationIssues(errs)>>, <<>>, TRUE, FALSE, FALSE)
    ELSE LET sent == requests_post(fd, net) IN
         IF net.kind # "response"
         THEN ExceptClause(s, net, sent)
         ELSE LET r == CheckResponse(s, net) IN
              \* an exception raised while the response is handled is caught
              \* by `except Exception`
              IF r.raised
              THEN Result(r.ss, r.msgs \o <<UnexpectedError>>, sent, TRUE, TRUE, TRUE)
              ELSE Result(r.ss, r.msgs, sent, TRUE, TRUE, FALSE)

\* Variant: the empty-attachments test comes before the file_errors test
AfterSizeGuardEmptyFirst(s, fd, file_errors, net) ==
    IF Len(fd.attachments) = 0
    THEN Result(s, <<DocumentRequiredError>>, <<>>, TRUE, FALSE, FALSE)
    ELSE IF file_errors # <<>>
    THEN Result(s, <<FileSizeError(file_errors)>>, <<>>, TRUE, FALSE, FALSE)
    ELSE TrySubmit(s, fd, net)

\* if file_errors: ... elif len(form_data["attachments"]) == 0: ... else: try ...
AfterSizeGuard(s, fd, file_errors, net) ==
    IF file_errors # <<>>
    THEN Result(s, <<FileSizeError(file_errors)>>, <<>>, TRUE, FALSE, FALSE)
    ELSE IF Len(fd.attachments) = 0
    THEN Result(s, <<DocumentRequiredError>>, <<>>, TRUE, FALSE, FALSE)
    ELSE TrySubmit(s, fd, net)

\* if submitted: ...
OnSubmit(s, net) ==
    IF RequiredMissing(s.name_input, s.email_input, s.subject_input, s.complaint_input)
    THEN Result(s, <<RequiredFieldsError>>, <<>>, FALSE, FALSE, FALSE)
    ELSE IF Len(s.uploaded_files) = 0
    THEN Result(s, <<DocumentRequiredError>>, <<>>, FALSE, FALSE, FALSE)
    ELSE LET g == SizeGuard(s.uploaded_files,
                            [attachments |-> <<>>, file_errors |-> <<>>])
             fd == [form_data(s) EXCEPT !.attachments = g.attachments]
         IN  AfterSizeGuard(s, fd, g.file_errors, net)

----------------------------------------------------------------------------
(* State machine *)

Init ==
    /\ ss = Defaults
    /\ pc = "form"
    /\ before = Defaults
    /\ reply = NoReply
    /\ msgs = <<>>
    /\ posts = <<>>
    /\ built = FALSE
    /\ validated = FALSE
    /\ resetRaised = FALSE

\* The user changes a widget: the form shows no result of an attempt
Edit(key, val) ==
    /\ ss' = [ss EXCEPT ![key] = val]
    /\ pc' = "form"
    /\ before' = Defaults
    /\ reply' = NoReply
    /\ msgs' = <<>>
    /\ posts' = <<>>
    /\ built' = FALSE
    /\ validated' = FALSE
    /\ resetRaised' = FALSE

EditName == \E v \in NameValues : Edit("name_input", v)
EditEmail == \E v \in EmailValues : Edit("email_input", v)
EditSubject == \E v \in SubjectValues : Edit("subject_input", v)
EditComplaint == \E v \in ComplaintValues : Edit("complaint_input", v)
SelectPriority ==
    \E i \in 1..Len(PriorityOptions) : Edit("priority_input", PriorityOptions[i])
UploadFiles == \E fs \in FileLists : Edit("uploaded_files", fs)

\* The user presses "Submit Complaint"; net is what the network does if asked
Submit ==
    \E net \in NetOutcomes : \E r \in {OnSubmit(ss, net)} :
        /\ before' = ss
        /\ reply' = IF r.posts = <<>> THEN NoReply ELSE net
        /\ ss' = r.ss
        /\ pc' = "result"
        /\ msgs' = r.msgs
        /\ posts' = r.posts
        /\ built' = r.built
        /\ validated' = r.validated
        /\ resetRaised' = r.resetRaised

Next ==
    \/ EditName
    \/ EditEmail
    \/ EditSubject
    \/ EditComplaint
    \/ SelectPriority
    \/ UploadFiles
    \/ Submit

Spec == Init /\ [][Next]_vars

----------------------------------------------------------------------------
(* Properties.  They speak about the attempt whose result is on screen     *)
(* (pc = "result"): `before` is the form as submitted, `reply` what the    *)
(* network did with the request, `msgs` the messages shown, `posts` the    *)
(* requests sent.                                                           *)

Shown(kind) == \E i \in 1..Len(msgs) : msgs[i].kind = kind
Kinds == { msgs[i].kind : i \in 1..Len(msgs) }
Files == before.uploaded_files
TextFields ==
    { before.name_input, before.email_input, before.subject_input,
      before.complaint_input }
FieldsKept ==
    /\ ss.name_input = before.name_input
    /\ ss.email_input = before.email_input
    /\ ss.subject_input = before.subject_input
    /\ ss.complaint_input = before.complaint_input
    /\ ss.priority_input = before.priority_input
PassedRequiredCheck == (\A t \in TextFields : StrLen(t) > 0) /\ Len(Files) > 0
Oversized == SelectSeq(Files, LAMBDA f : f.size > 5242880)
OversizedNames == [i \in 1..Len(Oversized) |-> Oversized[i].name]

\* C1: a POST is issued only if the four text fields are non-empty and, once
\* trimmed, within their bounds (name 2-100, subject 3-200, complaint
\* 10-2000, e-mail syntactically valid), the priority is one of the four
\* options, at least one file is attached and no file exceeds 5,242,880 bytes.
C1_PostOnlyIfValid ==
    (pc = "result" /\ posts # <<>>) =>
        /\ \A t \in TextFields : StrLen(t) > 0
        /\ before.name_input.core >= 2 /\ before.name_input.core <= 100
        /\ before.subject_input.core >= 3 /\ before.subject_input.core <= 200
        /\ before.complaint_input.core >= 10 /\ before.complaint_input.core <= 2000
        /\ before.email_input.form = "addr" /\ before.email_input.core > 0
        /\ before.priority_input \in {"Low", "Medium", "High", "Urgent"}
        /\ Len(Files) >= 1
        /\ \A i \in 1..Len(Files) : Files[i].size <= 5242880

C1_Witness ==
    /\ pc = "result" /\ posts # <<>>
    /\ before.name_input.lead > 0
    /\ Len(Files) = 2

\* C2: a submission that reaches the network call is classified into exactly
\* one outcome: Success iff a response with status 200 arrives,
\* UnexpectedStatus (with status code and body) for any other response,
\* Timeout for a timeout, TransportError for another request failure,
\* UnknownError for any other failure.
C2_ExactlyOneOutcome ==
    (pc = "result" /\ posts # <<>>) =>
        /\ (reply.kind = "response" /\ reply.status_code = 200) => Kinds = {"Success"}
        /\ (reply.kind = "response" /\ reply.status_code # 200) =>
              /\ Kinds = {"UnexpectedStatus"}
              /\ \E i \in 1..Len(msgs) : msgs[i].status = reply.status_code
              /\ \E i \in 1..Len(msgs) : msgs[i].body = reply.text
        /\ reply.kind = "Timeout" => Kinds = {"Timeout"}
        /\ reply.kind = "RequestException" => Kinds = {"TransportError"}
        /\ reply.kind = "Exception" => Kinds = {"UnknownError"}

\* C3: after an attempt whose outcome is Success, every form field is back at
\* its default (texts empty, priority "Low", no files selected) and the reset
\* raised no error.
C3_ResetAfterSuccess ==
    (pc = "result" /\ Shown("Success")) => (ss = Defaults /\ ~resetRaised)

\* C4: after an attempt whose outcome is not Success, the stored name, email,
\* subject, complaint and priority are what they were before the attempt.
C4_FieldsKeptUnlessSuccess ==
    (pc = "result" /\ ~Shown("Success")) => FieldsKept

C4_Witness ==
    /\ pc = "result" /\ ~Shown("Success")
    /\ reply.kind = "Timeout"
    /\ before.name_input # Empty /\ before.priority_input # "Low"
    /\ FieldsKept

\* C5: every submission attempt shows exactly one result message.
C5_ExactlyOneMessage == pc = "result" => Len(msgs) = 1

C7_BlankRejectedEarly ==
    (pc = "result" /\ ((\E t \in TextFields : t.core = 0) \/ Len(Files) = 0)) =>
        /\ msgs \in {<<RequiredFieldsError>>, <<DocumentRequiredError>>}
        /\ ~built /\ ~validated /\ posts = <<>>

\* C7 amended: a text field of length zero (before trimming), or no file, is
\* rejected by the required-field check with one generic error before any
\* payload is built; a whitespace-only field passes that check, the payload
\* is built, and the attempt is stopped by the size guard or by the
\* validation report, without a POST.
C7_EmptyRejectedEarly ==
    /\ (pc = "result" /\ (\E t \in TextFields : StrLen(t) = 0)) =>
          /\ msgs = <<RequiredFieldsError>>
          /\ ~built /\ ~validated /\ posts = <<>>
    /\ (pc = "result" /\ (\A t \in TextFields : StrLen(t) > 0) /\ Len(Files) = 0) =>
          /\ msgs = <<DocumentRequiredError>>
          /\ ~built /\ ~validated /\ posts = <<>>
    /\ (pc = "result" /\ PassedRequiredCheck /\ (\E t \in TextFields : t.core = 0)) =>
          /\ built /\ ~validated /\ posts = <<>>
          /\ Len(msgs) = 1
          /\ msgs[1].kind \in {"FileTooLarge", "ValidationError"}

C7_Witness ==
    /\ pc = "result"
    /\ StrLen(before.complaint_input) = 0
    /\ StrLen(before.name_input) > 0 /\ StrLen(before.email_input) > 0
    /\ StrLen(before.subject_input) > 0
    /\ Len(Files) > 0
    /\ msgs = <<RequiredFieldsError>>

\* C8: an attempt sends at most one POST, and exactly one when validation
\* succeeds; no outcome makes the handler send the request again.
C8_AtMostOnePost ==
    pc = "result" =>
        /\ Len(posts) <= 1
        /\ validated => Len(posts) = 1
        /\ (reply # NoReply) => Len(posts) = 1

C8_Witness ==
    pc = "result" /\ validated /\ reply.kind = "Timeout" /\ Len(posts) = 1

\* C9 as stated: files were supplied and every one exceeds the limit: the
\* attempt is blocked with the "document required" error.
C9_AllOversizedDocumentRequired ==
    (pc = "result" /\ PassedRequiredCheck /\ Len(Oversized) = Len(Files)) =>
        msgs = <<DocumentRequiredError>>

\* C9 amended: files were supplied and every one exceeds the limit: the
\* attempt is blocked with the per-file size errors, one per file, and not
\* with the "document required" error; no POST is made.
C9_AllOversizedSizeErrors ==
    (pc = "result" /\ PassedRequiredCheck /\ Len(Oversized) = Len(Files)) =>
        /\ msgs = <<FileSizeError([i \in 1..Len(Files) |-> Files[i].name])>>
        /\ ~Shown("DocumentRequired")
        /\ posts = <<>>

C9_Witness ==
    /\ pc = "result" /\ PassedRequiredCheck
    /\ Len(Files) = 2 /\ Len(Oversized) = 2
    /\ Len(msgs) = 1 /\ Len(msgs[1].items) = 2

\* C10: whenever a POST is sent, its attachments are the uploaded files, one
\* entry per file in upload order, and each size_bytes is the byte length of
\* the file's content and at most 5,242,880.
C10_AttachmentsAreTheFiles ==
    (pc = "result" /\ posts # <<>>) =>
        \A k \in 1..Len(posts) :
            /\ Len(posts[k].attachments) = Len(Files)
            /\ \A i \in 1..Len(Files) :
                  /\ posts[k].attachments[i].filename = Files[i].name
                  /\ posts[k].attachments[i].size_bytes = Files[i].size
                  /\ posts[k].attachments[i].size_bytes <= 5242880

C10_Witness ==
    /\ pc = "result" /\ posts # <<>>
    /\ Len(Files) = 2
    /\ Files[1].name # Files[2].name
    /\ posts[1].attachments[1].size_bytes = 5242880

====
